---- MODULE Spec2Model ----
(***************************************************************************)
(* Flower shop backend: order placement (createOrder) against the catalog  *)
(* (createFlower, updateFlower, updateFlowerStock, deleteFlower), the     *)
(* order status lifecycle (getOrderById, updateOrderStatus, cancelOrder),  *)
(* the address book (shippingAddress.controller), the review ledger        *)
(* (review.controller) and the paginated listings (getUserOrders,          *)
(* getAllOrders, getFlowerReviews).                                        *)
(*                                                                         *)
(* Money is kept in cents (integers).  Intermediate products of the        *)
(* controller's floating point arithmetic (tax, percentage discounts,      *)
(* total) are kept in hundredths of a cent, which represents them exactly; *)
(* Number.prototype.toFixed(2) is ToFixed2.                                *)
(*                                                                         *)
(* A request handler is split at its awaits that touch the database: the   *)
(* code between two such awaits runs without interleaving (one Node.js     *)
(* thread), so each action is one database access plus the synchronous     *)
(* code around it.                                                         *)
(***************************************************************************)
EXTENDS Integers, Sequences, FiniteSets, TLC

-----------------------------------------------------------------------------
(* Bounds of the model *)

\* number of admin catalog requests over a behaviour
MaxAdminOps == 1
\* number of review requests over a behaviour
MaxReviewOps == 3

-----------------------------------------------------------------------------
(* Program constants *)

\* shippingRates, in cents
RateStandard == 599
RateExpress == 1299
RateOvernight == 2499
RatePickup == 0
\* "Free shipping over $75", in cents
FreeShippingThreshold == 7500
\* taxRate = 0.08, in percent
TaxRatePercent == 8
\* discounts: percentages, and the fixed FREESHIP amount in cents
Welcome10Percent == 10
Save20Percent == 20
FreeShipAmount == 599
\* OrderItem.quantity validate max
MaxItemQuantity == 999

-----------------------------------------------------------------------------
(* Strings the code converts: a discount code is a sequence of characters *)

UpperChar(c) ==
    CASE c = "a" -> "A" [] c = "e" -> "E" [] c = "s" -> "S" [] c = "v" -> "V"
      [] c = "f" -> "F" [] c = "r" -> "R" [] c = "h" -> "H" [] c = "i" -> "I"
      [] c = "p" -> "P" [] c = "w" -> "W" [] c = "l" -> "L" [] c = "c" -> "C"
      [] c = "o" -> "O" [] c = "m" -> "M" [] c = "b" -> "B" [] c = "g" -> "G"
      [] c = "u" -> "U"
      [] OTHER -> c

\* String.prototype.toUpperCase
toUpperCase(s) == [i \in 1..Len(s) |-> UpperChar(s[i])]

WELCOME10 == <<"W", "E", "L", "C", "O", "M", "E", "1", "0">>
SAVE20 == <<"S", "A", "V", "E", "2", "0">>
FREESHIP == <<"F", "R", "E", "E", "S", "H", "I", "P">>
NoCode == <<>>
\* codes as a customer may type them
Welcome10Mixed == <<"W", "e", "l", "c", "o", "m", "e", "1", "0">>
Save20Lower == <<"s", "a", "v", "e", "2", "0">>
FreeshipLower == <<"f", "r", "e", "e", "s", "h", "i", "p">>
Bogus == <<"B", "O", "G", "U", "S">>

-----------------------------------------------------------------------------
(* Pricing helpers of the order controller *)

\* Number.prototype.toFixed(2) of a value given in hundredths of a cent,
\* as cents (round half away from zero on the decimal value)
ToFixed2(cc) == IF cc >= 0 THEN (cc + 50) \div 100 ELSE -((50 - cc) \div 100)

ShippingMethods == {"standard", "express", "overnight", "pickup"}

shippingRates ==
    [standard |-> RateStandard, express |-> RateExpress,
     overnight |-> RateOvernight, pickup |-> RatePickup]

\* shippingRates[shippingMethod] || shippingRates.standard: a rate that is
\* undefined or 0 is falsy and falls through to the standard rate
calculateShippingCost(shippingMethod, subtotal) ==
    LET looked == IF shippingMethod \in DOMAIN shippingRates
                  THEN shippingRates[shippingMethod] ELSE 0
        cost == IF looked # 0 THEN looked ELSE shippingRates.standard
    IN  IF subtotal >= FreeShippingThreshold THEN 0 ELSE cost

\* faulty variant: the code is looked up as typed
calculateDiscountAsTyped(discountCode, subtotal) ==
    CASE discountCode = FREESHIP -> 100 * FreeShipAmount
      [] discountCode = WELCOME10 -> subtotal * Welcome10Percent
      [] discountCode = SAVE20 -> subtotal * Save20Percent
      [] OTHER -> 0

\* result in hundredths of a cent
calculateDiscount(discountCode, subtotal) ==
    LET code == toUpperCase(discountCode)
    IN  CASE code = FREESHIP -> 100 * FreeShipAmount
          [] code = WELCOME10 -> subtotal * Welcome10Percent
          [] code = SAVE20 -> subtotal * Save20Percent
          [] OTHER -> 0

\* faulty variant: the shipping cost is not taxed
taxOnSubtotalOnly(subtotal, shippingCost) == subtotal * TaxRatePercent

\* (subtotal + shippingCost) * taxRate, in hundredths of a cent
taxAmountOf(subtotal, shippingCost) == (subtotal + shippingCost) * TaxRatePercent

\* subtotal + shippingCost + taxAmount - discountAmount, in hundredths of a cent
totalOf(subtotal, shippingCost, taxAmount, discountAmount) ==
    100 * (subtotal + shippingCost) + taxAmount - discountAmount

-----------------------------------------------------------------------------
(* The database and the requests in flight *)

\* the createOrder requests of a behaviour: request r is sent by the
\* authenticated user r (req.user.id); they may overlap or follow each other
Slots == {1, 2}
FlowerIds == {1, 2, 3}
\* shipping_addresses rows: address a belongs to user a
ShippingAddresses == {[id |-> 1, userId |-> 1], [id |-> 2, userId |-> 2]}

PaymentMethods == {"credit_card", "paypal", "stripe", "cash_on_delivery"}

NoFlower == [exists |-> FALSE, price |-> 0, stock |-> 0, status |-> "none", name |-> ""]
NoResponse == [status |-> 0, message |-> "none"]
NoBody ==
    [items |-> <<>>, shippingAddressId |-> 0, shippingMethod |-> "standard",
     paymentMethod |-> "", discountCode |-> NoCode]

VARIABLES
    flowers,         \* flowers table: id -> row
    orders,          \* orders table: set of rows, committed or still inside a transaction
    orderItems,      \* order_items table, likewise
    nextOrderId,     \* the orders id sequence
    pc,              \* per slot: where the createOrder handler stands
    body,            \* per slot: req.body
    validatedItems,  \* per slot: the handler's validatedItems
    subtotal,        \* per slot: the handler's subtotal, in cents
    order,           \* per slot: id of the row Order.create returned, 0 before
    transaction,     \* per slot: "none", "open", "commit" or "rollback"
    res,             \* per slot: the response sent
    reduced,         \* per slot: lines whose reduceStock has been executed
    stockBefore,     \* per slot: stock column when the request arrived
    others,          \* per slot: who else acted since the request arrived (0: the admin)
    adminOps,        \* admin catalog requests served so far
    adminRes,        \* response of the last admin catalog request
    statusReq,       \* the last request served by the order status handlers
    addresses,       \* shipping_addresses table: set of rows
    nextAddressId,   \* the shipping_addresses id sequence
    addressReq,      \* per slot: the address book request being served
    reviews,         \* product_reviews table: set of rows
    nextReviewId,    \* the product_reviews id sequence
    reviewReq,       \* the last request served by the review handlers
    reviewOps,       \* review requests served so far
    listingReq       \* the last request served by the paginated listings

vars ==
    <<flowers, orders, orderItems, nextOrderId, pc, body, validatedItems, subtotal,
      order, transaction, res, reduced, stockBefore, others, adminOps,
      adminRes, statusReq, addresses, nextAddressId, addressReq, reviews,
      nextReviewId, reviewReq, reviewOps, listingReq>>

dbVars == <<flowers, orders, orderItems, nextOrderId>>
adminVars == <<adminOps, adminRes>>
\* the createOrder handlers' locals and the catalog administration
placementVars ==
    <<pc, body, validatedItems, subtotal, order, transaction, res, reduced,
      stockBefore, others, adminOps, adminRes>>
statusVars == <<statusReq>>
addressVars == <<addresses, nextAddressId, addressReq>>
reviewVars == <<reviews, nextReviewId, reviewReq, reviewOps>>
\* what order placement and the catalog administration leave alone
elsewhereVars == <<statusVars, addressVars, reviewVars, listingReq>>

StockOf == [f \in FlowerIds |-> flowers[f].stock]

\* every other slot records that actor a has acted
Noted(a) == [s \in Slots |-> IF s = a THEN others[s] ELSE others[s] \cup {a}]

-----------------------------------------------------------------------------
(* Flower model: instance methods and validators *)

\* faulty variant: the status is not asked
isAvailableInStock(flower) == flower.stock > 0

\* Flower.prototype.isAvailable
isAvailable(flower) == flower.status = "active" /\ flower.stock > 0

\* error.errors of a SequelizeValidationError: the paths of the validators
\* that failed
validationErrors(flower) ==
    {f \in {"price", "stock"} : \/ (f = "price" /\ flower.price <= 0)
                                 \/ (f = "stock" /\ flower.stock < 0)}

\* faulty variant: the price validator is missing
FlowerValidStockOnly(flower) == flower.stock >= 0

\* faulty variant: the stock validator is missing
FlowerValidPriceOnly(flower) == flower.price > 0

\* validators of the Flower model, run by create, update and save
FlowerValid(flower) == flower.price > 0 /\ flower.stock >= 0

\* Flower.prototype.reduceStock on the instance loaded during validation:
\* the stock value the instance's save() writes
reduceStock(flower, quantity) == flower.stock - quantity

-----------------------------------------------------------------------------
(* Order and OrderItem models: validators run by create *)

OrderValid(orderData) ==
    /\ orderData.subtotal >= 1
    /\ orderData.shippingCost >= 0
    /\ orderData.taxAmount >= 0
    /\ orderData.total >= 1
    /\ orderData.discountAmount >= 0
    /\ orderData.shippingMethod \in ShippingMethods
    /\ orderData.paymentMethod \in PaymentMethods

OrderItemValid(item) ==
    /\ item.quantity >= 1
    /\ item.quantity <= MaxItemQuantity
    /\ item.unitPrice >= 1
    /\ item.totalPrice >= 1

-----------------------------------------------------------------------------
(* createOrder *)

Line(flowerId, quantity) == [flowerId |-> flowerId, quantity |-> quantity]

Lookup(flowerId) == IF flowerId \in FlowerIds THEN flowers[flowerId] ELSE NoFlower

\* faulty variant: the stock is compared before the availability is asked
itemCheckStockFirst(item, flower) ==
    IF item.flowerId = 0 \/ item.quantity <= 0 THEN "Invalid item data"
    ELSE IF ~flower.exists THEN "Product not found"
    ELSE IF flower.stock < item.quantity THEN "Insufficient stock"
    ELSE IF ~isAvailable(flower) THEN "Product not available"
    ELSE "ok"

\* the checks made on one line of the cart, in the order the loop makes them;
\* flower is what Flower.findByPk returned
itemCheck(item, flower) ==
    IF item.flowerId = 0 \/ item.quantity <= 0 THEN "Invalid item data"
    ELSE IF ~flower.exists THEN "Product not found"
    ELSE IF ~isAvailable(flower) THEN "Product not available"
    ELSE IF flower.stock < item.quantity THEN "Insufficient stock"
    ELSE "ok"

\* the checks made on the body before the first database read
bodyCheck(b) ==
    IF Len(b.items) = 0 THEN "Order must contain at least one item"
    ELSE IF b.paymentMethod = "" THEN "Payment method is required"
    ELSE "ok"

\* ShippingAddress.findOne({ where: { id: shippingAddressId, userId } })
addressFound(shippingAddressId, userId) ==
    \E a \in ShippingAddresses : a.id = shippingAddressId /\ a.userId = userId

\* the orderData the handler builds from its subtotal and the body
orderDataOf(userId, b, sub) ==
    LET shippingCost == calculateShippingCost(b.shippingMethod, sub)
        taxAmount == taxAmountOf(sub, shippingCost)
        discountAmount == IF b.discountCode # NoCode
                          THEN calculateDiscount(b.discountCode, sub) ELSE 0
        total == totalOf(sub, shippingCost, taxAmount, discountAmount)
    IN  [userId |-> userId,
         subtotal |-> sub,
         shippingCost |-> shippingCost,
         taxAmount |-> ToFixed2(taxAmount),
         discountAmount |-> ToFixed2(discountAmount),
         total |-> ToFixed2(total),
         shippingMethod |-> b.shippingMethod,
         paymentMethod |-> b.paymentMethod,
         discountCode |-> b.discountCode]

\* the handler returns: its locals are gone
Return(r, status, message) ==
    /\ res' = [res EXCEPT ![r] = [status |-> status, message |-> message]]
    /\ pc' = [pc EXCEPT ![r] = "done"]
    /\ validatedItems' = [validatedItems EXCEPT ![r] = <<>>]
    /\ subtotal' = [subtotal EXCEPT ![r] = 0]

\* return res.status(400).json(...) out of the try block: the transaction
\* stays as it is
Reject(r, message) == Return(r, 400, message)

\* catch (error): transaction.rollback() removes the rows written inside the
\* transaction, then 500 is sent
Fail(r) ==
    /\ orders' = {o \in orders : o.id # order[r]}
    /\ orderItems' = {i \in orderItems : i.orderId # order[r]}
    /\ transaction' = [transaction EXCEPT ![r] = "rollback"]
    /\ Return(r, 500, "Failed to create order")

\* a request arrives: models.sequelize.transaction() opens the transaction,
\* then items and paymentMethod are checked
Submit(r, b) ==
    /\ pc[r] = "idle"
    /\ body' = [body EXCEPT ![r] = b]
    /\ transaction' = [transaction EXCEPT ![r] = "open"]
    /\ order' = [order EXCEPT ![r] = 0]
    /\ reduced' = [reduced EXCEPT ![r] = 0]
    /\ stockBefore' = [stockBefore EXCEPT ![r] = StockOf]
    /\ others' = [Noted(r) EXCEPT ![r] = {s \in Slots \ {r} : pc[s] \notin {"idle", "done"}}]
    /\ IF bodyCheck(b) # "ok"
       THEN Reject(r, bodyCheck(b))
       ELSE /\ pc' = [pc EXCEPT ![r] = IF b.shippingAddressId # 0 THEN "address" ELSE "item"]
            /\ res' = [res EXCEPT ![r] = NoResponse]
            /\ UNCHANGED <<validatedItems, subtotal>>
    /\ UNCHANGED <<dbVars, adminVars, elsewhereVars>>

\* "Verify shipping address belongs to user"
CheckAddress(r) ==
    /\ pc[r] = "address"
    /\ IF ~addressFound(body[r].shippingAddressId, r)
       THEN Reject(r, "Invalid shipping address")
       ELSE pc' = [pc EXCEPT ![r] = "item"] /\ UNCHANGED <<res, validatedItems, subtotal>>
    /\ others' = Noted(r)
    /\ UNCHANGED <<dbVars, adminVars, elsewhereVars, body, order, transaction, reduced, stockBefore>>

\* one turn of the validation loop: the line after those already validated
ValidateItem(r) ==
    /\ pc[r] = "item"
    /\ LET item == body[r].items[Len(validatedItems[r]) + 1]
           flower == Lookup(item.flowerId)
           check == itemCheck(item, flower)
           itemTotal == flower.price * item.quantity
       IN  IF check # "ok"
           THEN Reject(r, check)
           ELSE /\ validatedItems' = [validatedItems EXCEPT ![r] =
                        Append(@, [flowerId |-> item.flowerId, flower |-> flower,
                                   quantity |-> item.quantity,
                                   unitPrice |-> flower.price,
                                   totalPrice |-> itemTotal])]
                /\ subtotal' = [subtotal EXCEPT ![r] = @ + itemTotal]
                /\ pc' = [pc EXCEPT ![r] =
                        IF Len(validatedItems[r]) + 1 = Len(body[r].items)
                        THEN "create" ELSE "item"]
                /\ res' = res
    /\ others' = Noted(r)
    /\ UNCHANGED <<dbVars, adminVars, elsewhereVars, body, order, transaction, reduced,
                   stockBefore>>

\* the totals are computed and Order.create(orderData, { transaction }) runs
CreateOrderRow(r) ==
    /\ pc[r] = "create"
    /\ LET orderData == orderDataOf(r, body[r], subtotal[r])
       IN  IF ~OrderValid(orderData)
           THEN /\ Fail(r)
                /\ UNCHANGED <<order, nextOrderId>>
           ELSE /\ orders' = orders \cup
                        {[id |-> nextOrderId, committed |-> FALSE, status |-> "pending",
                          data |-> orderData]}
                /\ order' = [order EXCEPT ![r] = nextOrderId]
                /\ nextOrderId' = nextOrderId + 1
                /\ pc' = [pc EXCEPT ![r] = "orderItem"]
                /\ UNCHANGED <<orderItems, transaction, res, validatedItems, subtotal>>
    /\ others' = Noted(r)
    /\ UNCHANGED <<flowers, adminVars, elsewhereVars, body, reduced, stockBefore>>

\* faulty variant: price and name are read from the catalog when the row is
\* written
orderItemDataFromCatalog(item) ==
    [flowerId |-> item.flowerId, quantity |-> item.quantity,
     unitPrice |-> flowers[item.flowerId].price,
     totalPrice |-> flowers[item.flowerId].price * item.quantity,
     flowerName |-> flowers[item.flowerId].name]

\* the fields OrderItem.create is given for a validated line; flowerName
\* stands for the snapshot fields, all copied from item.flower alike
orderItemData(item) ==
    [flowerId |-> item.flowerId, quantity |-> item.quantity,
     unitPrice |-> item.unitPrice, totalPrice |-> item.totalPrice,
     flowerName |-> item.flower.name]

\* OrderItem.create({...}, { transaction }) for the next validated line
CreateOrderItem(r) ==
    /\ pc[r] = "orderItem"
    /\ LET n == reduced[r] + 1
           item == validatedItems[r][n]
       IN  IF ~OrderItemValid(item)
           THEN Fail(r)
           ELSE /\ orderItems' = orderItems \cup
                        {[orderId |-> order[r], line |-> n, committed |-> FALSE]
                         @@ orderItemData(item)}
                /\ pc' = [pc EXCEPT ![r] = "reduceStock"]
                /\ UNCHANGED <<orders, transaction, res, validatedItems, subtotal>>
    /\ others' = Noted(r)
    /\ UNCHANGED <<flowers, nextOrderId, adminVars, elsewhereVars, body, order, reduced, stockBefore>>

\* item.flower.reduceStock(item.quantity): no transaction is passed, so the
\* write is its own, immediately committed, statement
ReduceStock(r) ==
    /\ pc[r] = "reduceStock"
    /\ LET n == reduced[r] + 1
           item == validatedItems[r][n]
           stock == reduceStock(item.flower, item.quantity)
       IN  IF ~FlowerValid([item.flower EXCEPT !.stock = stock])
           THEN /\ Fail(r)
                /\ UNCHANGED <<flowers, reduced>>
           ELSE /\ flowers' = [flowers EXCEPT ![item.flowerId].stock = stock]
                /\ reduced' = [reduced EXCEPT ![r] = n]
                /\ pc' = [pc EXCEPT ![r] =
                        IF n = Len(validatedItems[r]) THEN "commit" ELSE "orderItem"]
                /\ UNCHANGED <<orders, orderItems, transaction, res, validatedItems,
                               subtotal>>
    /\ others' = Noted(r)
    /\ UNCHANGED <<nextOrderId, adminVars, elsewhereVars, body, order, stockBefore>>

\* transaction.commit()
Commit(r) ==
    /\ pc[r] = "commit"
    /\ orders' = {IF o.id = order[r] THEN [o EXCEPT !.committed = TRUE] ELSE o : o \in orders}
    /\ orderItems' =
           {IF i.orderId = order[r] THEN [i EXCEPT !.committed = TRUE] ELSE i : i \in orderItems}
    /\ transaction' = [transaction EXCEPT ![r] = "commit"]
    /\ pc' = [pc EXCEPT ![r] = "respond"]
    /\ others' = Noted(r)
    /\ UNCHANGED <<flowers, nextOrderId, adminVars, elsewhereVars, body, validatedItems, subtotal,
                   order, res, reduced, stockBefore>>

\* the complete order is fetched and sent with 201
Respond(r) ==
    /\ pc[r] = "respond"
    /\ Return(r, 201, "Order created successfully")
    /\ others' = Noted(r)
    /\ UNCHANGED <<dbVars, adminVars, elsewhereVars, body, order, transaction, reduced, stockBefore>>

\* Order.findByPk for the response throws after the commit: the catch calls
\* transaction.rollback() on the finished transaction, which throws in turn,
\* before res.status(500) is reached: the handler ends without a response of
\* its own, and the rows and the stock stay
ReloadFails(r) ==
    /\ pc[r] = "respond"
    /\ Return(r, NoResponse.status, NoResponse.message)
    /\ others' = Noted(r)
    /\ UNCHANGED <<dbVars, adminVars, elsewhereVars, body, order, transaction, reduced, stockBefore>>

-----------------------------------------------------------------------------
(* Catalog administration.  Each handler reads the row and writes the fields *)
(* named in its body; nothing it writes depends on what it read, so the two  *)
(* database accesses are taken as one step.                                  *)

AdminDone(status, message, fields) ==
    /\ adminRes' = [status |-> status, message |-> message, fields |-> fields]
    /\ adminOps' = adminOps + 1
    /\ others' = [s \in Slots |-> others[s] \cup {0}]
    /\ UNCHANGED <<orders, orderItems, nextOrderId, pc, body, validatedItems,
                   subtotal, order, transaction, res, reduced, stockBefore,
                   elsewhereVars>>

\* instance.update(updateData) / Model.create(data): the row with the given
\* fields set
Assigned(row, data) ==
    [f \in DOMAIN row |-> IF f \in DOMAIN data THEN data[f] ELSE row[f]]

\* POST /api/flowers
createFlower(flowerData) ==
    /\ adminOps < MaxAdminOps
    /\ \E id \in FlowerIds :
          /\ ~flowers[id].exists
          /\ \A j \in FlowerIds : j < id => flowers[j].exists
          /\ LET flower == Assigned([exists |-> TRUE, price |-> 0, stock |-> 0,
                                     status |-> "active", name |-> ""], flowerData)
             IN  IF flowerData.name = "" \/ flowerData.price = 0 \/ flowerData.category = ""
                 THEN /\ flowers' = flowers
                      /\ AdminDone(400, "Missing required fields",
                                   {f \in {"name", "price", "category"} :
                                       \/ (f = "name" /\ flowerData.name = "")
                                       \/ (f = "price" /\ flowerData.price = 0)
                                       \/ (f = "category" /\ flowerData.category = "")})
                 ELSE IF ~FlowerValid(flower)
                 THEN /\ flowers' = flowers
                      /\ AdminDone(400, "Validation failed", validationErrors(flower))
                 ELSE /\ flowers' = [flowers EXCEPT ![id] = flower]
                      /\ AdminDone(201, "Flower created successfully", {})

\* PUT /api/flowers/:id
updateFlower(id, updateData) ==
    /\ adminOps < MaxAdminOps
    /\ IF ~Lookup(id).exists
       THEN flowers' = flowers /\ AdminDone(404, "Flower not found", {})
       ELSE IF ~FlowerValid(Assigned(flowers[id], updateData))
       THEN /\ flowers' = flowers
            /\ AdminDone(400, "Validation failed",
                         validationErrors(Assigned(flowers[id], updateData)))
       ELSE /\ flowers' = [flowers EXCEPT ![id] = Assigned(@, updateData)]
            /\ AdminDone(200, "Flower updated successfully", {})

\* typeof stock !== 'number' || stock < 0
stockRejected(stock) == stock < 0

\* PATCH /api/flowers/:id/stock; Flower.prototype.updateStock sets the column
\* and saves the instance
updateFlowerStock(id, stock) ==
    /\ adminOps < MaxAdminOps
    /\ IF stockRejected(stock)
       THEN flowers' = flowers /\ AdminDone(400, "Stock must be a non-negative number", {})
       ELSE IF ~Lookup(id).exists
       THEN flowers' = flowers /\ AdminDone(404, "Flower not found", {})
       ELSE IF ~FlowerValid([flowers[id] EXCEPT !.stock = stock])
       THEN flowers' = flowers /\ AdminDone(500, "Failed to update stock", {})
       ELSE /\ flowers' = [flowers EXCEPT ![id].stock = stock]
            /\ AdminDone(200, "Stock updated successfully", {})

\* DELETE /api/flowers/:id: "Soft delete by setting status to discontinued"
deleteFlower(id) ==
    /\ adminOps < MaxAdminOps
    /\ IF ~Lookup(id).exists
       THEN flowers' = flowers /\ AdminDone(404, "Flower not found", {})
       ELSE IF ~FlowerValid([flowers[id] EXCEPT !.status = "discontinued"])
       THEN flowers' = flowers /\ AdminDone(500, "Failed to delete flower", {})
       ELSE /\ flowers' = [flowers EXCEPT ![id].status = "discontinued"]
            /\ AdminDone(200, "Flower deleted successfully", {})

-----------------------------------------------------------------------------
(* Requests the model sends *)

\* a body that passes the body checks: paid by card, standard shipping, no
\* shipping address, no discount code
Paid(items) == [NoBody EXCEPT !.items = items, !.paymentMethod = "credit_card"]

\* quantity 1 of flower 1
OneOfFlower1 == <<Line(1, 1)>>
\* the same product on two lines
TwiceFlower1 == <<Line(1, 1), Line(1, 1)>>
\* a second line whose quantity OrderItem.create refuses
OverMaxQuantity == <<Line(1, 1), Line(2, 1000)>>

\* carts and bodies of the concurrent specification
Bodies ==
    LET Ok(items) == Paid(items)
        Cart1 == OneOfFlower1
    IN  { NoBody,
          [NoBody EXCEPT !.items = Cart1],
          [Ok(Cart1) EXCEPT !.shippingAddressId = 1],
          Ok(Cart1),
          Ok(<<Line(1, 2)>>),
          Ok(<<Line(1, 0)>>),
          Ok(<<Line(3, 1)>>),
          Ok(<<Line(1, 1), Line(2, 1)>>),
          Ok(OverMaxQuantity),
          Ok(TwiceFlower1) }

StockInputs == {-1, 0, 3}

UpdateInputs ==
    { [stock |-> -1], [stock |-> 1], [price |-> 0], [price |-> 1007],
      [status |-> "discontinued"] }

CreateInputs ==
    { [name |-> "", price |-> 1500, category |-> "bouquet", stock |-> 4],
      [name |-> "Tulip", price |-> 0, category |-> "bouquet", stock |-> 4],
      [name |-> "Tulip", price |-> 1500, category |-> "bouquet", stock |-> -1],
      [name |-> "Tulip", price |-> 1500, category |-> "bouquet", stock |-> 4],
      [name |-> "Tulip", price |-> 1500, category |-> "bouquet"] }

\* rows the admin requests of the model name: an existing and a missing one
AdminTargets == {1, 3}

-----------------------------------------------------------------------------
(* Specification: two createOrder handlers and the catalog administration *)

IdleHandlers ==
    /\ pc = [r \in Slots |-> "idle"]
    /\ body = [r \in Slots |-> NoBody]
    /\ validatedItems = [r \in Slots |-> <<>>]
    /\ subtotal = [r \in Slots |-> 0]
    /\ order = [r \in Slots |-> 0]
    /\ transaction = [r \in Slots |-> "none"]
    /\ res = [r \in Slots |-> NoResponse]
    /\ reduced = [r \in Slots |-> 0]
    /\ stockBefore = [r \in Slots |-> [f \in FlowerIds |-> 0]]
    /\ others = [r \in Slots |-> {}]
    /\ adminOps = 0
    /\ adminRes = NoResponse

\* no request of the order status handlers, the address book or the review
\* ledger has been served, and their tables are empty
NoRequest == [op |-> "none"]

IdleStatus == statusReq = NoRequest

IdleListing == listingReq = NoRequest

IdleAddresses ==
    /\ addresses = {}
    /\ nextAddressId = 1
    /\ addressReq = [s \in Slots |-> NoRequest]

IdleReviews ==
    /\ reviews = {}
    /\ nextReviewId = 1
    /\ reviewReq = NoRequest
    /\ reviewOps = 0

InitRequests ==
    /\ IdleHandlers
    /\ IdleStatus /\ IdleListing /\ IdleAddresses /\ IdleReviews
    /\ orders = {}
    /\ orderItems = {}
    /\ nextOrderId = 1

\* the seeded catalog: two products, the id 3 not yet used
InitFlowers ==
    [f \in FlowerIds |->
        CASE f = 1 -> [exists |-> TRUE, price |-> 2999, stock |-> 1, status |-> "active",
                       name |-> "Rose"]
          [] f = 2 -> [exists |-> TRUE, price |-> 5000, stock |-> 1000, status |-> "active",
                       name |-> "Lily"]
          [] OTHER -> NoFlower]

Init == InitRequests /\ flowers = InitFlowers

OrderStep(r) ==
    \/ CheckAddress(r)
    \/ ValidateItem(r)
    \/ CreateOrderRow(r)
    \/ CreateOrderItem(r)
    \/ ReduceStock(r)
    \/ Commit(r)
    \/ Respond(r)
    \/ ReloadFails(r)

Next ==
    \/ \E r \in Slots, b \in Bodies : Submit(r, b)
    \/ \E r \in Slots : OrderStep(r)
    \/ \E d \in CreateInputs : createFlower(d)
    \/ \E id \in AdminTargets, d \in UpdateInputs : updateFlower(id, d)
    \/ \E id \in AdminTargets, s \in StockInputs : updateFlowerStock(id, s)

Spec == Init /\ [][Next]_vars

-----------------------------------------------------------------------------
(* Vocabulary of the properties *)

Done(r) == pc[r] = "done"
Created(r) == Done(r) /\ res[r].status = 201
\* nobody else has acted since request r arrived
Alone(r) == others[r] = {}

PersistedOrders == {o \in orders : o.committed}
PersistedItems == {i \in orderItems : i.committed}

\* the flowers table as request r found it, for a request that ran alone
FlowersBefore(r) == [f \in FlowerIds |-> [flowers[f] EXCEPT !.stock = stockBefore[r][f]]]

RECURSIVE QuantityOrdered(_, _)
\* the quantity of flower f that the lines of a cart order
QuantityOrdered(items, f) ==
    IF items = <<>> THEN 0
    ELSE (IF Head(items).flowerId = f THEN Head(items).quantity ELSE 0)
         + QuantityOrdered(Tail(items), f)

\* what is wrong with line i of a cart, against a flowers table
LineProblem(items, i, table) ==
    LET id == items[i].flowerId
        q == items[i].quantity
    IN  CASE id = 0 \/ q < 1 -> "Invalid item data"
          [] id \notin FlowerIds -> "Product not found"
          [] ~table[id].exists -> "Product not found"
          [] table[id].status # "active" \/ table[id].stock = 0 -> "Product not available"
          [] q > table[id].stock -> "Insufficient stock"
          [] OTHER -> "ok"

\* the message of the first check that request body b of user u fails
FirstProblem(b, u, table) ==
    LET bad == {i \in 1..Len(b.items) : LineProblem(b.items, i, table) # "ok"}
        first == CHOOSE i \in bad : \A j \in bad : i <= j
    IN  CASE b.items = <<>> -> "Order must contain at least one item"
          [] b.paymentMethod = "" -> "Payment method is required"
          [] b.shippingAddressId # 0
             /\ [id |-> b.shippingAddressId, userId |-> u] \notin ShippingAddresses
               -> "Invalid shipping address"
          [] bad # {} -> LineProblem(b.items, first, table)
          [] OTHER -> "ok"

-----------------------------------------------------------------------------
(* Properties of order placement under concurrency *)

\* C1: two overlapping requests, each for quantity 1 of a product whose stock
\* is 1: exactly one is answered 201 and the other 400 "Insufficient stock"
C1_ExactlyOneOfTwoSucceeds ==
    ( /\ Done(1) /\ Done(2)
      /\ adminOps = 0
      /\ body[1] = Paid(OneOfFlower1) /\ body[2] = Paid(OneOfFlower1)
      /\ stockBefore[1][1] = 1 /\ stockBefore[2][1] = 1 )
    => \E r \in Slots :
          /\ res[r].status = 201
          /\ \A s \in Slots \ {r} :
                res[s] = [status |-> 400, message |-> "Insufficient stock"]

C3_AllOrNothing ==
    \A r \in Slots :
        (Done(r) /\ res[r].status # 201 /\ order[r] # 0)
        => /\ \A o \in orders : o.id # order[r]
           /\ \A i \in orderItems : i.orderId # order[r]
           /\ Alone(r) => StockOf = stockBefore[r]

C5_NoHalfCommittedOrder ==
    /\ \A i \in PersistedItems : \E o \in PersistedOrders : o.id = i.orderId
    /\ \A r \in Slots :
          reduced[r] > 0 => \E o \in PersistedOrders : o.id = order[r]

\* C6: a request that fails a validation check is answered 400 with the
\* message of the first failing check, and has written nothing
C6_RejectionsAreClean ==
    \A r \in Slots :
        /\ (Done(r) /\ res[r].status = 400)
           => /\ order[r] = 0 /\ reduced[r] = 0
              /\ \A o \in orders : o.data.userId # r
              /\ Alone(r) => /\ StockOf = stockBefore[r]
                             /\ res[r].message = FirstProblem(body[r], r, flowers)
        /\ (Done(r) /\ Alone(r))
           => (res[r].status = 400 <=> FirstProblem(body[r], r, FlowersBefore(r)) # "ok")

\* C6 witness: after another request took the last unit, a request that ran
\* alone has been rejected because the product is not available
C6_Witness ==
    \E r \in Slots :
        /\ Done(r) /\ Alone(r)
        /\ res[r] = [status |-> 400, message |-> "Product not available"]
        /\ \E s \in Slots \ {r} : Created(s)

-----------------------------------------------------------------------------
(* Specification of the pricing: one valid request over carts, prices,     *)
(* shipping methods and discount codes.  No input of PricingBodies over    *)
(* Prices puts an amount exactly half a cent from a cent, where toFixed(2) *)
(* depends on the binary representation of the float.                      *)

Prices == {1007, 2999, 5000}

DiscountCodes ==
    {NoCode, WELCOME10, SAVE20, FREESHIP, Welcome10Mixed, Save20Lower, FreeshipLower, Bogus}

PricingCarts == {<<Line(1, 1)>>, <<Line(1, 2)>>, <<Line(1, 1), Line(2, 1)>>}

PricingBodies ==
    {[items |-> c, shippingAddressId |-> 1, shippingMethod |-> m,
      paymentMethod |-> "paypal", discountCode |-> d] :
        c \in PricingCarts, m \in ShippingMethods, d \in DiscountCodes}

InitPricing ==
    /\ InitRequests
    /\ \E p1 \in Prices, p2 \in Prices :
          flowers = [f \in FlowerIds |->
                        CASE f = 1 -> [exists |-> TRUE, price |-> p1, stock |-> 10,
                                       status |-> "active",
                                       name |-> "Rose"]
                          [] f = 2 -> [exists |-> TRUE, price |-> p2, stock |-> 10,
                                       status |-> "active",
                                       name |-> "Lily"]
                          [] OTHER -> NoFlower]

NextPricing ==
    \/ \E b \in PricingBodies : Submit(1, b)
    \/ OrderStep(1)

SpecPricing == InitPricing /\ [][NextPricing]_vars

-----------------------------------------------------------------------------
(* Properties of the pricing *)

ItemsOf(o) == {i \in orderItems : i.orderId = o.id}

RECURSIVE SumAtCurrentPrice(_)
\* sum over a set of OrderItem rows of the product's price times the quantity
SumAtCurrentPrice(items) ==
    IF items = {} THEN 0
    ELSE LET i == CHOOSE x \in items : TRUE
         IN  flowers[i.flowerId].price * i.quantity + SumAtCurrentPrice(items \ {i})

\* amount (cents) is the given percentage of base (cents), to the nearest cent
IsPercentOf(amount, percent, base) ==
    /\ 100 * amount - percent * base <= 50
    /\ percent * base - 100 * amount <= 50

\* C7: the stored total of every persisted order is its stored subtotal +
\* shippingCost + taxAmount - discountAmount, in cents
C7_TotalIsSumOfStoredParts ==
    \A o \in PersistedOrders :
        o.data.total = o.data.subtotal + o.data.shippingCost + o.data.taxAmount
                       - o.data.discountAmount

\* C8: shipping costs 5.99 (standard), 12.99 (express), 24.99 (overnight) and
\* 0 (pickup) below a subtotal of 75, and 0 from 75 on
C8_ShippingRateTable ==
    \A o \in PersistedOrders :
        o.data.shippingCost =
            IF o.data.subtotal >= 7500 THEN 0
            ELSE CASE o.data.shippingMethod = "standard" -> 599
                   [] o.data.shippingMethod = "express" -> 1299
                   [] o.data.shippingMethod = "overnight" -> 2499
                   [] o.data.shippingMethod = "pickup" -> 0

\* C9: subtotal is the sum over the lines of current price times quantity,
\* taxAmount is 8% of subtotal + shippingCost whatever the discount, rounded to
\* cents; 2 units at 29.99 with standard shipping: 5.99, 5.28 and 71.25
C9_SubtotalAndTax ==
    \A o \in PersistedOrders :
        /\ o.data.subtotal = SumAtCurrentPrice(ItemsOf(o))
        /\ IsPercentOf(o.data.taxAmount, 8, o.data.subtotal + o.data.shippingCost)
        /\ ( /\ \E i \in ItemsOf(o) : ItemsOf(o) = {i} /\ i.quantity = 2 /\ i.unitPrice = 2999
             /\ o.data.shippingMethod = "standard"
             /\ o.data.discountCode = NoCode )
           => /\ o.data.shippingCost = 599
              /\ o.data.taxAmount = 528
              /\ o.data.total = 7125

\* C9 witness: the order of 2 units at 29.99 with standard shipping, and an
\* order whose tax is taken on an amount that a discount then lowers
C9_Witness ==
    \E o \in PersistedOrders :
        /\ o.data.subtotal = 5998 /\ o.data.shippingMethod = "standard"
        /\ Cardinality(ItemsOf(o)) = 1
        /\ o.data.discountCode = NoCode
        /\ o.data.taxAmount = 528

-----------------------------------------------------------------------------
(* Order status lifecycle: getOrderById, updateOrderStatus, cancelOrder.   *)
(* The statements about these handlers are about sequences of requests, so *)
(* each request is one step.  The Order instance methods the handlers call *)
(* (updateStatus, cancel) follow the documented state machine.             *)

OrderStatuses ==
    {"pending", "processing", "in_transit", "delivered", "cancelled", "refunded"}

\* req.user of the requests: two customers and an administrator
Requesters ==
    {[id |-> 1, role |-> "user"], [id |-> 2, role |-> "user"], [id |-> 9, role |-> "admin"]}

Admins == {u \in Requesters : u.role = "admin"}

\* faulty variant: the owner is not part of the where clause
whereClauseAnyOwner(id, user) == [id |-> id]

\* const whereClause = { id }; if (!isAdmin) whereClause.userId = userId
whereClause(id, user) ==
    IF user.role = "admin" THEN [id |-> id] ELSE [id |-> id, userId |-> user.id]

\* Order.findOne({ where }): the committed rows that match
findOne(where) ==
    {o \in orders :
        /\ o.committed
        /\ o.id = where.id
        /\ "userId" \in DOMAIN where => o.data.userId = where.userId}

\* Order.findByPk(id)
findByPk(id) == findOne([id |-> id])

\* Order.prototype.updateStatus: the transitions it accepts
transitionAllowed(from, to) ==
    \/ from = "pending" /\ to = "processing"
    \/ from = "processing" /\ to = "in_transit"
    \/ from = "in_transit" /\ to = "delivered"
    \/ from \in {"pending", "processing", "in_transit"} /\ to = "cancelled"
    \/ from \in {"delivered", "cancelled"} /\ to = "refunded"

\* Order.prototype.updateStatus throws on an unrecognized status and on an
\* illegal transition
updateStatusThrows(o, status) ==
    status \notin OrderStatuses \/ ~transitionAllowed(o.status, status)

\* Order.prototype.canBeCancelled; Order.prototype.cancel throws without it
canBeCancelled(o) == o.status \notin {"delivered", "refunded"}

\* the orders table with the status of order o set
WithStatus(o, status) == (orders \ {o}) \cup {[o EXCEPT !.status = status]}

\* the request served is recorded with the table as it found it
Served(op, user, id, target, status, message) ==
    /\ statusReq' = [op |-> op, user |-> user, id |-> id, target |-> target,
                     before |-> orders,
                     res |-> [status |-> status, message |-> message]]
    /\ UNCHANGED <<flowers, orderItems, nextOrderId, placementVars, addressVars,
                   reviewVars, listingReq>>

\* GET /api/orders/:id
getOrderById(user, id) ==
    /\ orders' = orders
    /\ IF findOne(whereClause(id, user)) = {}
       THEN Served("getOrderById", user, id, "", 404, "Order not found")
       ELSE Served("getOrderById", user, id, "", 200, "ok")

\* PUT /api/orders/:id/status, behind requireAdmin; an error thrown by
\* updateStatus is caught and answered 500
updateOrderStatus(user, id, status) ==
    IF findByPk(id) = {}
    THEN orders' = orders /\ Served("updateOrderStatus", user, id, status, 404, "Order not found")
    ELSE LET o == CHOOSE x \in findByPk(id) : TRUE
         IN  IF updateStatusThrows(o, status)
             THEN /\ orders' = orders
                  /\ Served("updateOrderStatus", user, id, status, 500,
                            "Failed to update order status")
             ELSE /\ orders' = WithStatus(o, status)
                  /\ Served("updateOrderStatus", user, id, status, 200,
                            "Order status updated successfully")

\* POST /api/orders/:id/cancel; an error thrown by cancel is caught and
\* answered 500
cancelOrder(user, id) ==
    IF findOne(whereClause(id, user)) = {}
    THEN orders' = orders /\ Served("cancelOrder", user, id, "cancelled", 404, "Order not found")
    ELSE LET o == CHOOSE x \in findOne(whereClause(id, user)) : TRUE
         IN  IF ~canBeCancelled(o)
             THEN /\ orders' = orders
                  /\ Served("cancelOrder", user, id, "cancelled", 500, "Failed to cancel order")
             ELSE /\ orders' = WithStatus(o, "cancelled")
                  /\ Served("cancelOrder", user, id, "cancelled", 200,
                            "Order cancelled successfully")

\* order ids the requests name: the orders of users 1 and 2, and a missing one
OrderIdInputs == {1, 2, 3}
\* target statuses the requests name
StatusInputs == OrderStatuses \cup {"shipped"}

\* an order of one unit of flower 1, placed earlier by the given user
PlacedOrder(id, userId) ==
    [id |-> id, committed |-> TRUE, status |-> "pending",
     data |-> orderDataOf(userId, Paid(OneOfFlower1), InitFlowers[1].price)]

InitStatus ==
    /\ IdleHandlers /\ IdleStatus /\ IdleListing /\ IdleAddresses /\ IdleReviews
    /\ flowers = InitFlowers
    /\ orders = {PlacedOrder(1, 1), PlacedOrder(2, 2)}
    /\ orderItems =
          {[orderId |-> o, line |-> 1, committed |-> TRUE, flowerId |-> 1,
            quantity |-> 1, unitPrice |-> InitFlowers[1].price,
            totalPrice |-> InitFlowers[1].price,
            flowerName |-> InitFlowers[1].name] : o \in {1, 2}}
    /\ nextOrderId = 3

NextStatus ==
    \/ \E u \in Requesters, id \in OrderIdInputs : getOrderById(u, id)
    \/ \E u \in Admins, id \in OrderIdInputs, st \in StatusInputs :
          updateOrderStatus(u, id, st)
    \/ \E u \in Requesters, id \in OrderIdInputs : cancelOrder(u, id)

SpecStatus == InitStatus /\ [][NextStatus]_vars

-----------------------------------------------------------------------------
(* Properties of the order status lifecycle *)

\* the status transitions the documentation of Order.status allows
DocumentedTransitions ==
    {<<"pending", "processing">>, <<"processing", "in_transit">>,
     <<"in_transit", "delivered">>,
     <<"pending", "cancelled">>, <<"processing", "cancelled">>,
     <<"in_transit", "cancelled">>,
     <<"delivered", "refunded">>, <<"cancelled", "refunded">>}

\* the rows the last request found under the id it named
Target == {o \in statusReq.before : o.id = statusReq.id}
\* the same rows now
TargetNow == {o \in orders : o.id = statusReq.id}
Asked(op) == statusReq.op = op

\* C12: a status changes only along a documented transition; an update that
\* names an unrecognized status or another transition is rejected with a
\* ValidationError (400) and changes nothing
C12_StatusMachine ==
    (Asked("updateOrderStatus") \/ Asked("cancelOrder"))
    => /\ \A b \in statusReq.before, o \in orders :
             (o.id = b.id /\ o.status # b.status)
             => <<b.status, o.status>> \in DocumentedTransitions
       /\ \A b \in Target :
             ( /\ Asked("updateOrderStatus")
               /\ <<b.status, statusReq.target>> \notin DocumentedTransitions )
             => statusReq.res.status = 400 /\ orders = statusReq.before

\* C13: cancelling a delivered or refunded order fails with InvalidState (400)
\* and leaves the status; cancelling a pending order sets it to cancelled
C13_CancelByState ==
    (Asked("cancelOrder") /\ statusReq.res.status # 404)
    => \A b \in Target :
          /\ b.status \in {"delivered", "refunded"}
             => statusReq.res.status = 400 /\ orders = statusReq.before
          /\ b.status = "pending"
             => /\ statusReq.res.status = 200
                /\ \A o \in TargetNow : o.status = "cancelled"

\* C14: for a customer, an order of somebody else is answered exactly like an
\* order that does not exist, 404 "Order not found", and is not changed; the
\* owner and the administrator are not answered 404, and an administrator's
\* cancel of a pending order of any customer cancels it
C14_OwnOrdersOnly ==
    (Asked("getOrderById") \/ Asked("cancelOrder"))
    => LET user == statusReq.user
           mine == {b \in Target : user.role = "admin" \/ b.data.userId = user.id}
       IN  /\ mine = {}
              => /\ statusReq.res = [status |-> 404, message |-> "Order not found"]
                 /\ orders = statusReq.before
           /\ mine # {} => statusReq.res.status # 404
           /\ \A b \in mine :
                 (Asked("cancelOrder") /\ b.status = "pending")
                 => \A o \in TargetNow : o.status = "cancelled"

\* C14 witness: a customer asked to cancel a pending order of another customer
C14_Witness ==
    /\ Asked("cancelOrder")
    /\ statusReq.user.role = "user"
    /\ \E b \in Target : b.data.userId # statusReq.user.id /\ b.status = "pending"
    /\ statusReq.res.status = 404

-----------------------------------------------------------------------------
(* Address book: createAddress, updateAddress, deleteAddress and           *)
(* setDefaultAddress.  Two requests of the same user may overlap; a        *)
(* handler is split at its database accesses.                              *)

\* req.user.id of the address book requests
AddressUser == 1

\* the rows of a user
AddressesOf(table, userId) == {a \in table : a.userId = userId}
DefaultsOf(table, userId) == {a \in AddressesOf(table, userId) : a.isDefault}

\* ShippingAddress.findOne({ where: { id, userId } })
findAddress(id, userId) == {a \in addresses : a.id = id /\ a.userId = userId}

\* requiredFields.filter(field => !addressData[field]), for the one required
\* field the requests of the model vary
missingFields(addressData) ==
    IF addressData.recipientName = "" THEN {"recipientName"} ELSE {}

\* faulty variant: the check is made for an empty address book
isOnlyAddressWhenNone(addressCount) == addressCount = 0

\* if (addressCount === 1)
isOnlyAddress(addressCount) == addressCount = 1

\* ShippingAddress.prototype.setAsDefault: one transaction clears isDefault on
\* the user's other addresses and sets it on this one
setAsDefault(address) ==
    {IF a.userId = address.userId THEN [a EXCEPT !.isDefault = (a.id = address.id)] ELSE a :
        a \in addresses}

InFlight(s) == addressReq[s].op # "none" /\ addressReq[s].pc # "done"

\* the request of slot s as it arrives
Arrived(s, op, id, data) ==
    [op |-> op, id |-> id, data |-> data, pc |-> "arrived", address |-> {},
     res |-> NoResponse, before |-> addresses,
     others |-> {t \in Slots \ {s} : InFlight(t)}]

\* slot s acts and takes its request to q: the other requests record it
Acts(s, q) ==
    /\ addressReq' =
          [t \in Slots |->
              IF t = s THEN q
              ELSE IF addressReq[t].op = "none" THEN addressReq[t]
              ELSE [addressReq[t] EXCEPT !.others = @ \cup {s}]]
    /\ UNCHANGED <<dbVars, placementVars, statusVars, reviewVars, listingReq>>

Answered(q, status, message) ==
    [q EXCEPT !.pc = "done", !.res = [status |-> status, message |-> message]]

\* POST /api/addresses: the body with userId set is given to
\* ShippingAddress.create
createAddress(s, b) ==
    /\ addressReq[s].op = "none"
    /\ LET q == Arrived(s, "createAddress", nextAddressId, b)
           addressData == [id |-> nextAddressId, userId |-> AddressUser,
                           recipientName |-> b.recipientName, isDefault |-> b.isDefault]
       IN  IF missingFields(addressData) # {}
           THEN /\ Acts(s, Answered(q, 400, "Missing required fields"))
                /\ UNCHANGED <<addresses, nextAddressId>>
           ELSE /\ addresses' = addresses \cup {addressData}
                /\ nextAddressId' = nextAddressId + 1
                /\ Acts(s, Answered(q, 201, "Address created successfully"))

\* the first database access of updateAddress, deleteAddress and
\* setDefaultAddress: the address is looked up among the user's own
FindAddress(s, op, id, data, then) ==
    /\ LET q == Arrived(s, op, id, data)
           found == findAddress(id, AddressUser)
       IN  IF found = {}
           THEN Acts(s, Answered(q, 404, "Address not found"))
           ELSE Acts(s, [q EXCEPT !.pc = then, !.address = found])
    /\ UNCHANGED <<addresses, nextAddressId>>

\* GET /api/addresses/:id
getAddressById(s, id) ==
    /\ addressReq[s].op = "none"
    /\ LET q == Arrived(s, "getAddressById", id, <<>>)
           found == findAddress(id, AddressUser)
       IN  IF found = {}
           THEN Acts(s, Answered(q, 404, "Address not found"))
           ELSE Acts(s, Answered([q EXCEPT !.address = found], 200, "address"))
    /\ UNCHANGED <<addresses, nextAddressId>>

\* PUT /api/addresses/:id
updateAddress(s, id, updateData) ==
    /\ addressReq[s].op = "none"
    /\ FindAddress(s, "updateAddress", id, updateData, "update")

\* await address.update(updateData)
UpdateAddressRow(s) ==
    /\ addressReq[s].op = "updateAddress" /\ addressReq[s].pc = "update"
    /\ addresses' =
          {IF a.id = addressReq[s].id THEN Assigned(a, addressReq[s].data) ELSE a :
              a \in addresses}
    /\ nextAddressId' = nextAddressId
    /\ Acts(s, Answered(addressReq[s], 200, "Address updated successfully"))

\* DELETE /api/addresses/:id
deleteAddress(s, id) ==
    /\ addressReq[s].op = "none"
    /\ FindAddress(s, "deleteAddress", id, <<>>, "count")

\* ShippingAddress.count({ where: { userId } }) and the check on it
CountAddresses(s) ==
    /\ addressReq[s].op = "deleteAddress" /\ addressReq[s].pc = "count"
    /\ LET addressCount == Cardinality(AddressesOf(addresses, AddressUser))
       IN  IF isOnlyAddress(addressCount)
           THEN Acts(s, Answered(addressReq[s], 400,
                                 "Cannot delete the only address. Please add another address first."))
           ELSE Acts(s, [addressReq[s] EXCEPT !.pc = "destroy"])
    /\ UNCHANGED <<addresses, nextAddressId>>

\* await address.destroy()
DestroyAddress(s) ==
    /\ addressReq[s].op = "deleteAddress" /\ addressReq[s].pc = "destroy"
    /\ addresses' = {a \in addresses : a.id # addressReq[s].id}
    /\ nextAddressId' = nextAddressId
    /\ Acts(s, Answered(addressReq[s], 200, "Address deleted successfully"))

\* POST /api/addresses/:id/default
setDefaultAddress(s, id) ==
    /\ addressReq[s].op = "none"
    /\ FindAddress(s, "setDefaultAddress", id, <<>>, "setAsDefault")

\* await address.setAsDefault()
SetAsDefault(s) ==
    /\ addressReq[s].op = "setDefaultAddress" /\ addressReq[s].pc = "setAsDefault"
    /\ addresses' = setAsDefault(CHOOSE a \in addressReq[s].address : TRUE)
    /\ nextAddressId' = nextAddressId
    /\ Acts(s, Answered(addressReq[s], 200, "Default address updated successfully"))

\* bodies of createAddress
AddressBodies ==
    {[recipientName |-> n, isDefault |-> d] : n \in {"", "Ann"}, d \in BOOLEAN}
    \cup {[recipientName |-> "Ann", isDefault |-> FALSE, userId |-> 2]}
\* bodies of updateAddress
AddressUpdates ==
    {[isDefault |-> TRUE], [isDefault |-> FALSE], [recipientName |-> "Bea"], [userId |-> 2]}
\* ids the requests name: the user's own, another user's, a missing one
AddressIdInputs == {1, 2, 3, 9}

Address(id, userId, isDefault) ==
    [id |-> id, userId |-> userId, recipientName |-> "Ann", isDefault |-> isDefault]

\* the user has one address, the default, or a second one besides; address 3
\* is the default address of user 2
InitAddress ==
    /\ IdleHandlers /\ IdleStatus /\ IdleListing /\ IdleReviews
    /\ flowers = InitFlowers
    /\ orders = {} /\ orderItems = {} /\ nextOrderId = 1
    /\ addresses \in
          { {Address(1, AddressUser, TRUE), Address(3, 2, TRUE)},
            {Address(1, AddressUser, TRUE), Address(2, AddressUser, FALSE),
             Address(3, 2, TRUE)} }
    /\ nextAddressId = 4
    /\ addressReq = [s \in Slots |-> NoRequest]

NextAddress ==
    \/ \E s \in Slots, b \in AddressBodies : createAddress(s, b)
    \/ \E s \in Slots, id \in AddressIdInputs : getAddressById(s, id)
    \/ \E s \in Slots, id \in AddressIdInputs, d \in AddressUpdates : updateAddress(s, id, d)
    \/ \E s \in Slots : UpdateAddressRow(s)
    \/ \E s \in Slots, id \in AddressIdInputs : deleteAddress(s, id)
    \/ \E s \in Slots : CountAddresses(s)
    \/ \E s \in Slots : DestroyAddress(s)
    \/ \E s \in Slots, id \in AddressIdInputs : setDefaultAddress(s, id)
    \/ \E s \in Slots : SetAsDefault(s)

SpecAddress == InitAddress /\ [][NextAddress]_vars

-----------------------------------------------------------------------------
(* Properties of the address book *)

Finished(s, op) == addressReq[s].op = op /\ addressReq[s].pc = "done"
\* nobody else has acted since the request of slot s arrived
Undisturbed(s) == addressReq[s].others = {}

\* C15: no user ever has two default addresses, and once a setDefaultAddress
\* has completed, the target is the one default address of the user
C15_OneDefaultAddress ==
    /\ \A u \in {1, 2} : Cardinality(DefaultsOf(addresses, u)) <= 1
    /\ \A s \in Slots :
          ( /\ Finished(s, "setDefaultAddress") /\ Undisturbed(s)
            /\ addressReq[s].res.status = 200 )
          => \E a \in addresses :
                a.id = addressReq[s].id /\ DefaultsOf(addresses, AddressUser) = {a}

\* C16: deleting the only address of the user is answered 400 and the address
\* stays as it was
C16_OnlyAddressStays ==
    \A s \in Slots :
        ( /\ Finished(s, "deleteAddress") /\ Undisturbed(s)
          /\ \E a \in addressReq[s].before :
                a.id = addressReq[s].id /\ AddressesOf(addressReq[s].before, AddressUser) = {a} )
        => /\ addressReq[s].res.status = 400
           /\ addresses = addressReq[s].before

\* C16 witness: the only address was asked to be deleted and the request was
\* refused
C16_Witness ==
    \E s \in Slots :
        /\ Finished(s, "deleteAddress") /\ Undisturbed(s)
        /\ AddressesOf(addressReq[s].before, AddressUser) = {Address(1, AddressUser, TRUE)}
        /\ addressReq[s].id = 1
        /\ addressReq[s].res.status = 400
        /\ Address(1, AddressUser, TRUE) \in addresses

\* C17: a user who has an address keeps at least one, whatever deleteAddress
\* requests overlap
C17_KeepsAnAddress == AddressesOf(addresses, AddressUser) # {}

-----------------------------------------------------------------------------
(* Review ledger: createReview, updateReview, markReviewHelpful and        *)
(* reportReview.  The statements about them are about sequences of         *)
(* requests, so each request is one step.                                  *)

ReviewUsers == {1, 2}

\* ProductReview.createFromOrder refuses a product that no confirmed order of
\* the user contains ...
cannotReview(userId, flowerId, orderId) ==
    ~\E o \in orders, i \in orderItems :
        /\ o.committed /\ o.id = orderId /\ o.data.userId = userId
        /\ o.status # "pending"
        /\ i.committed /\ i.orderId = orderId /\ i.flowerId = flowerId

\* ... and a second review of the same user, product and order
reviewExists(userId, flowerId, orderId) ==
    \E rv \in reviews :
        rv.userId = userId /\ rv.flowerId = flowerId /\ rv.orderId = orderId

\* rating < 1 || rating > 5
ratingOutOfRange(rating) == rating < 1 \/ rating > 5

\* the request served is recorded with the table as it found it
Reviewed(op, user, id, data, status, message) ==
    /\ reviewReq' = [op |-> op, user |-> user, id |-> id, data |-> data,
                     before |-> reviews,
                     res |-> [status |-> status, message |-> message]]
    /\ reviewOps' = reviewOps + 1
    /\ UNCHANGED <<dbVars, placementVars, statusVars, addressVars, listingReq>>

\* POST /api/flowers/:flowerId/reviews
createReview(userId, flowerId, b) ==
    /\ reviewOps < MaxReviewOps
    /\ IF b.orderId = 0 \/ b.rating = 0
       THEN /\ UNCHANGED <<reviews, nextReviewId>>
            /\ Reviewed("createReview", userId, flowerId, b, 400,
                        "Order ID and rating are required")
       ELSE IF ratingOutOfRange(b.rating)
       THEN /\ UNCHANGED <<reviews, nextReviewId>>
            /\ Reviewed("createReview", userId, flowerId, b, 400,
                        "Rating must be between 1 and 5")
       ELSE IF cannotReview(userId, flowerId, b.orderId)
       THEN /\ UNCHANGED <<reviews, nextReviewId>>
            /\ Reviewed("createReview", userId, flowerId, b, 400, "Cannot review product")
       ELSE IF reviewExists(userId, flowerId, b.orderId)
       THEN /\ UNCHANGED <<reviews, nextReviewId>>
            /\ Reviewed("createReview", userId, flowerId, b, 400, "Review already exists")
       ELSE /\ reviews' = reviews \cup
                    {[id |-> nextReviewId, userId |-> userId, flowerId |-> flowerId,
                      orderId |-> b.orderId, rating |-> b.rating,
                      helpfulCount |-> 0, reportedCount |-> 0]}
            /\ nextReviewId' = nextReviewId + 1
            /\ Reviewed("createReview", userId, flowerId, b, 201,
                        "Review created successfully")

\* PUT /api/reviews/:id: updateData.rating && (out of range) is the only check
\* before review.update(updateData)
updateReview(userId, id, updateData) ==
    /\ reviewOps < MaxReviewOps
    /\ nextReviewId' = nextReviewId
    /\ LET found == {rv \in reviews : rv.id = id /\ rv.userId = userId}
       IN  IF found = {}
           THEN reviews' = reviews
                /\ Reviewed("updateReview", userId, id, updateData, 404, "Review not found")
           ELSE IF /\ "rating" \in DOMAIN updateData
                   /\ updateData.rating # 0
                   /\ ratingOutOfRange(updateData.rating)
           THEN reviews' = reviews
                /\ Reviewed("updateReview", userId, id, updateData, 400,
                            "Rating must be between 1 and 5")
           ELSE /\ reviews' = {IF rv \in found THEN Assigned(rv, updateData) ELSE rv :
                                  rv \in reviews}
                /\ Reviewed("updateReview", userId, id, updateData, 200,
                            "Review updated successfully")

\* ProductReview.prototype.markHelpful and report: the counter the save writes
markHelpful(review) == [review EXCEPT !.helpfulCount = @ + 1]
report(review) == [review EXCEPT !.reportedCount = @ + 1]

\* review.userId === userId
isOwnReview(review, userId) == review.userId = userId

\* POST /api/reviews/:id/helpful
markReviewHelpful(userId, id) ==
    /\ reviewOps < MaxReviewOps
    /\ nextReviewId' = nextReviewId
    /\ LET found == {rv \in reviews : rv.id = id}
       IN  IF found = {}
           THEN reviews' = reviews
                /\ Reviewed("markReviewHelpful", userId, id, <<>>, 404, "Review not found")
           ELSE IF \E rv \in found : isOwnReview(rv, userId)
           THEN reviews' = reviews
                /\ Reviewed("markReviewHelpful", userId, id, <<>>, 400,
                            "Cannot mark your own review as helpful")
           ELSE /\ reviews' = {IF rv \in found THEN markHelpful(rv) ELSE rv : rv \in reviews}
                /\ Reviewed("markReviewHelpful", userId, id, <<>>, 200,
                            "Review marked as helpful")

\* POST /api/reviews/:id/report
reportReview(userId, id) ==
    /\ reviewOps < MaxReviewOps
    /\ nextReviewId' = nextReviewId
    /\ LET found == {rv \in reviews : rv.id = id}
       IN  IF found = {}
           THEN reviews' = reviews
                /\ Reviewed("reportReview", userId, id, <<>>, 404, "Review not found")
           ELSE IF \E rv \in found : isOwnReview(rv, userId)
           THEN reviews' = reviews
                /\ Reviewed("reportReview", userId, id, <<>>, 400,
                            "Cannot report your own review")
           ELSE /\ reviews' = {IF rv \in found THEN report(rv) ELSE rv : rv \in reviews}
                /\ Reviewed("reportReview", userId, id, <<>>, 200,
                            "Review reported successfully")

\* bodies of createReview: orderId absent (0), own or foreign; rating absent
\* (0), in range, or too large
ReviewBodies == {[orderId |-> o, rating |-> r] : o \in {0, 1, 2}, r \in {0, 3, 6}}
\* bodies of updateReview
ReviewUpdates ==
    { [rating |-> 0], [rating |-> 4], [rating |-> 6], [title |-> "Lovely"],
      [helpfulCount |-> 7], [reportedCount |-> 0], [flowerId |-> 1] }
ReviewIdInputs == {1, 2, 3}
ReviewedFlowers == {1, 2}

\* order 1 of user 1 held flowers 1 and 2, order 2 of user 2 held flower 1;
\* both have been delivered
InitReview ==
    /\ IdleHandlers /\ IdleStatus /\ IdleListing /\ IdleAddresses /\ IdleReviews
    /\ flowers = InitFlowers
    /\ orders = {[PlacedOrder(1, 1) EXCEPT !.status = "delivered"],
                 [PlacedOrder(2, 2) EXCEPT !.status = "delivered"]}
    /\ orderItems =
          {[orderId |-> l[1], line |-> l[2], committed |-> TRUE, flowerId |-> l[3],
            quantity |-> 1, unitPrice |-> InitFlowers[l[3]].price,
            totalPrice |-> InitFlowers[l[3]].price,
            flowerName |-> InitFlowers[l[3]].name] :
              l \in {<<1, 1, 1>>, <<1, 2, 2>>, <<2, 1, 1>>}}
    /\ nextOrderId = 3

NextReview ==
    \/ \E u \in ReviewUsers, f \in ReviewedFlowers, b \in ReviewBodies : createReview(u, f, b)
    \/ \E u \in ReviewUsers, id \in ReviewIdInputs, d \in ReviewUpdates : updateReview(u, id, d)
    \/ \E u \in ReviewUsers, id \in ReviewIdInputs : markReviewHelpful(u, id)
    \/ \E u \in ReviewUsers, id \in ReviewIdInputs : reportReview(u, id)

SpecReview == InitReview /\ [][NextReview]_vars

-----------------------------------------------------------------------------
(* Properties of the review ledger *)

ReviewAsked(op) == reviewReq.op = op
\* the review the last request named, as the request found it
ReviewTarget == {rv \in reviewReq.before : rv.id = reviewReq.id}
\* the rating the last request carried, 0 when it carried none
CarriedRating ==
    IF "rating" \in DOMAIN reviewReq.data THEN reviewReq.data.rating ELSE 0

\* C18: every stored rating is an integer from 1 to 5; a createReview or
\* updateReview carrying another rating is answered 400 and stores nothing
C18_RatingInRange ==
    /\ \A rv \in reviews : rv.rating \in 1..5
    /\ ( /\ ReviewAsked("createReview") \/ ReviewAsked("updateReview")
         /\ "rating" \in DOMAIN reviewReq.data
         /\ reviewReq.res.status # 404
         /\ CarriedRating \notin 1..5 )
       => reviewReq.res.status = 400 /\ reviews = reviewReq.before

\* C19: no two reviews share user, product and order; a second createReview
\* for the same triple is answered 400 and creates no row
C19_OneReviewPerPurchase ==
    /\ \A a \in reviews, b \in reviews :
          (a.userId = b.userId /\ a.flowerId = b.flowerId /\ a.orderId = b.orderId)
          => a = b
    /\ ( /\ ReviewAsked("createReview")
         /\ \E rv \in reviewReq.before :
               /\ rv.userId = reviewReq.user /\ rv.flowerId = reviewReq.id
               /\ rv.orderId = reviewReq.data.orderId )
       => reviewReq.res.status = 400 /\ reviews = reviewReq.before

\* C20: the author's markReviewHelpful and reportReview are answered 400 and
\* change no counter; another user's add one to the counter they name; no
\* other request changes the counters of a review
C20_CountersByOthersOnly ==
    /\ (ReviewAsked("markReviewHelpful") \/ ReviewAsked("reportReview"))
       => \A b \in ReviewTarget :
             /\ b.userId = reviewReq.user
                => reviewReq.res.status = 400 /\ reviews = reviewReq.before
             /\ (ReviewAsked("markReviewHelpful") /\ b.userId # reviewReq.user)
                => [b EXCEPT !.helpfulCount = @ + 1] \in reviews
             /\ (ReviewAsked("reportReview") /\ b.userId # reviewReq.user)
                => [b EXCEPT !.reportedCount = @ + 1] \in reviews
    /\ (ReviewAsked("createReview") \/ ReviewAsked("updateReview"))
       => \A b \in reviewReq.before, rv \in reviews :
             rv.id = b.id
             => rv.helpfulCount = b.helpfulCount /\ rv.reportedCount = b.reportedCount

-----------------------------------------------------------------------------
(* Specification of small orders: the pricing requests against a catalog   *)
(* whose first product costs 1.00, so that the fixed FREESHIP discount     *)
(* exceeds the price of the goods.                                         *)

SmallPrice == 100

InitSmallOrder ==
    /\ InitRequests
    /\ \E p2 \in Prices :
          flowers = [f \in FlowerIds |->
                        CASE f = 1 -> [exists |-> TRUE, price |-> SmallPrice, stock |-> 10,
                                       status |-> "active",
                                       name |-> "Rose"]
                          [] f = 2 -> [exists |-> TRUE, price |-> p2, stock |-> 10,
                                       status |-> "active",
                                       name |-> "Lily"]
                          [] OTHER -> NoFlower]

SpecSmallOrder == InitSmallOrder /\ [][NextPricing]_vars

\* the shipping cost of the documented rate table, in cents
DocumentedShippingCost(shippingMethod, sub) ==
    IF sub >= 7500 THEN 0
    ELSE CASE shippingMethod = "standard" -> 599
           [] shippingMethod = "express" -> 1299
           [] shippingMethod = "overnight" -> 2499
           [] shippingMethod = "pickup" -> 0

RECURSIVE CartValue(_)
\* sum over the lines of a cart of the product's price times the quantity
CartValue(items) ==
    IF items = <<>> THEN 0
    ELSE flowers[Head(items).flowerId].price * Head(items).quantity + CartValue(Tail(items))

\* subtotal + shippingCost + taxAmount - discountAmount of a request body by
\* the documented rates, in hundredths of a cent
DocumentedTotal(b) ==
    LET sub == CartValue(b.items)
        shippingCost == DocumentedShippingCost(b.shippingMethod, sub)
    IN  100 * (sub + shippingCost) + 8 * (sub + shippingCost)
        - calculateDiscount(b.discountCode, sub)

\* C11: a request whose total is <= 0 is answered 400 and leaves no Order, no
\* OrderItem and no stock change
C11_NonPositiveTotalRejected ==
    \A r \in Slots :
        (Done(r) /\ DocumentedTotal(body[r]) <= 0)
        => /\ res[r].status = 400
           /\ \A o \in orders : o.data.userId # r
           /\ \A i \in orderItems : i.orderId # order[r]
           /\ StockOf = stockBefore[r]

\* the total createOrder computes is positive for every request that reaches
\* Order.create
TotalComputedPositive ==
    \A r \in Slots :
        pc[r] = "create" => orderDataOf(r, body[r], subtotal[r]).total >= 1

-----------------------------------------------------------------------------
(* The paginated listings: getUserOrders, getAllOrders, getFlowerReviews.  *)
(* A query parameter is a text, given as the sequence of its characters; a *)
(* JavaScript number is a record that is either NaN or carries an integer. *)

NaN == [nan |-> TRUE, n |-> 0]
Num(k) == [nan |-> FALSE, n |-> k]

\* the parameter is missing from req.query
Undefined == <<"undefined">>

\* parseInt(string): leading white space, an optional sign, then the decimal
\* digits up to the first other character; NaN when there is no digit
parseInt(s) ==
    LET Digits == <<"0", "1", "2", "3", "4", "5", "6", "7", "8", "9">>
        IsDigit(c) == \E i \in 1..10 : Digits[i] = c
        DigitValue(c) == (CHOOSE i \in 1..10 : Digits[i] = c) - 1
        RECURSIVE SkipWhiteSpace(_)
        SkipWhiteSpace(t) ==
            IF t # <<>> /\ Head(t) = " " THEN SkipWhiteSpace(Tail(t)) ELSE t
        RECURSIVE DigitPrefix(_)
        DigitPrefix(t) ==
            IF t # <<>> /\ IsDigit(Head(t)) THEN <<Head(t)>> \o DigitPrefix(Tail(t))
            ELSE <<>>
        RECURSIVE DecimalValue(_)
        DecimalValue(d) ==
            IF d = <<>> THEN 0
            ELSE 10 * DecimalValue(SubSeq(d, 1, Len(d) - 1)) + DigitValue(d[Len(d)])
        trimmed == SkipWhiteSpace(s)
        signed == trimmed # <<>> /\ Head(trimmed) \in {"-", "+"}
        digits == DigitPrefix(IF signed THEN Tail(trimmed) ELSE trimmed)
    IN  IF digits = <<>> THEN NaN
        ELSE IF signed /\ Head(trimmed) = "-" THEN Num(-DecimalValue(digits))
        ELSE Num(DecimalValue(digits))

\* Math.max and Math.min: NaN when an argument is NaN
MathMax(a, b) ==
    IF a.nan \/ b.nan THEN NaN ELSE IF a.n >= b.n THEN a ELSE b

MathMin(a, b) ==
    IF a.nan \/ b.nan THEN NaN ELSE IF a.n <= b.n THEN a ELSE b

\* const { page = 1, limit = ... } = req.query: the default replaces a
\* missing parameter only
Defaulted(q, default) == IF q = Undefined THEN default ELSE q

\* pageNum, limitNum and offset as the three listings compute them
pageNumOf(page) == MathMax(Num(1), parseInt(Defaulted(page, <<"1">>)))

limitNumOf(limit, default, most) ==
    MathMin(Num(most), MathMax(Num(1), parseInt(Defaulted(limit, default))))

\* (pageNum - 1) * limitNum: NaN when an operand is NaN
offsetOf(pageNum, limitNum) ==
    IF pageNum.nan \/ limitNum.nan THEN NaN ELSE Num((pageNum.n - 1) * limitNum.n)


RECURSIVE SumOfTotals(_)
\* orders.reduce((sum, order) => sum + parseFloat(order.total), 0), in cents
SumOfTotals(rows) ==
    IF rows = <<>> THEN 0 ELSE Head(rows).data.total + SumOfTotals(Tail(rows))

\* (a / b).toFixed(2) of an amount a in cents and a count b >= 1, in cents
QuotientToFixed2(a, b) == (2 * a + b) \div (2 * b)

\* a listing request was served: what it asked, the pagination it computed
\* and what it answered
Listed(op, page, limit, pageNum, limitNum, offset, status, rows, count, summary) ==
    /\ listingReq' = [op |-> op, page |-> page, limit |-> limit,
                      pageNum |-> pageNum, limitNum |-> limitNum, offset |-> offset,
                      status |-> status, rows |-> rows, count |-> count,
                      summary |-> summary]
    /\ UNCHANGED <<dbVars, placementVars, statusVars, addressVars, reviewVars>>

NoSummary == [totalOrders |-> 0, totalRevenue |-> 0, averageOrderValue |-> 0]

\* findAndCountAll({where, order, limit, offset}): a LIMIT or OFFSET that is
\* NaN is no SQL, the query is refused and the handler's catch answers 500
findAndCountAll(op, matching, page, limit, pageNum, limitNum, offset, summarised) ==
    IF limitNum.nan \/ offset.nan
    THEN Listed(op, page, limit, pageNum, limitNum, offset, 500, <<>>, 0, NoSummary)
    ELSE LET RECURSIVE Newest(_)
             \* order: [['createdAt', 'DESC']]: ids follow the order of creation
             Newest(S) ==
                 IF S = {} THEN <<>>
                 ELSE LET o == CHOOSE x \in S : \A y \in S : y.id <= x.id
                      IN  <<o>> \o Newest(S \ {o})
             sorted == Newest(matching)
             left == Len(sorted) - offset.n
             n == IF left < 0 THEN 0 ELSE IF left < limitNum.n THEN left ELSE limitNum.n
             \* LIMIT limitNum OFFSET offset
             rows == [i \in 1..n |-> sorted[offset.n + i]]
             count == Cardinality(matching)
             totalRevenue == SumOfTotals(rows)
         IN  Listed(op, page, limit, pageNum, limitNum, offset, 200, rows, count,
                    IF summarised
                    THEN [totalOrders |-> count,
                          totalRevenue |-> totalRevenue,
                          averageOrderValue |->
                              IF count > 0 THEN QuotientToFixed2(totalRevenue, count)
                              ELSE 0]
                    ELSE NoSummary)

\* GET /api/orders/my
getUserOrders(userId, status, page, limit) ==
    LET pageNum == pageNumOf(page)
        limitNum == limitNumOf(limit, <<"1", "0">>, 50)
        offset == offsetOf(pageNum, limitNum)
        matching == {o \in orders : /\ o.data.userId = userId
                                    /\ status # "" => o.status = status}
    IN  /\ userId \in {1, 2}
        /\ findAndCountAll("getUserOrders", matching, page, limit, pageNum, limitNum,
                           offset, FALSE)

\* GET /api/orders (admin)
getAllOrders(status, page, limit) ==
    LET pageNum == pageNumOf(page)
        limitNum == limitNumOf(limit, <<"2", "0">>, 100)
        offset == offsetOf(pageNum, limitNum)
        matching == {o \in orders : status # "" => o.status = status}
    IN  /\ status \in {"", "pending", "delivered"}
        /\ findAndCountAll("getAllOrders", matching, page, limit, pageNum, limitNum,
                           offset, TRUE)

\* GET /api/reviews/flower/:flowerId; the page of reviews itself is fetched
\* by ProductReview.getByFlower and is not part of the record
getFlowerReviews(flowerId, page, limit) ==
    LET pageNum == pageNumOf(page)
        limitNum == limitNumOf(limit, <<"1", "0">>, 50)
        offset == offsetOf(pageNum, limitNum)
    IN  /\ flowerId \in FlowerIds
        /\ Listed("getFlowerReviews", page, limit, pageNum, limitNum, offset,
                  IF ~flowers[flowerId].exists THEN 404
                  ELSE IF limitNum.nan \/ offset.nan THEN 500 ELSE 200,
                  <<>>, 0, NoSummary)

\* query texts: missing, plain numbers, zero, negative, beyond every limit,
\* a number followed by other characters, no number at all, empty
QueryTexts ==
    {Undefined, <<"1">>, <<"2">>, <<"3">>, <<"0">>, <<"-", "1">>, <<"1", "0", "1">>,
     <<" ", "2", ".", "5">>, <<"a", "b", "c">>, <<>>}

MaxListed == 3

\* the order with the given id, placed by user 1 (odd ids) or 2 (even ids);
\* every second one has been delivered
ListedOrder(id) ==
    [id |-> id, committed |-> TRUE,
     status |-> IF id % 2 = 0 THEN "delivered" ELSE "pending",
     data |-> orderDataOf(2 - (id % 2), Paid(OneOfFlower1), 1000 * id + 7)]

InitListing ==
    /\ IdleHandlers /\ IdleStatus /\ IdleListing /\ IdleAddresses /\ IdleReviews
    /\ flowers = InitFlowers
    /\ \E n \in 0..MaxListed :
          /\ orders = {ListedOrder(id) : id \in 1..n}
          /\ nextOrderId = n + 1
    /\ orderItems = {}

NextListing ==
    \/ \E u \in {1, 2}, st \in {"", "pending"}, page \in QueryTexts, limit \in QueryTexts :
          getUserOrders(u, st, page, limit)
    \/ \E st \in {"", "pending", "delivered"}, page \in QueryTexts, limit \in QueryTexts :
          getAllOrders(st, page, limit)
    \/ \E f \in {1, 3}, page \in QueryTexts, limit \in QueryTexts :
          getFlowerReviews(f, page, limit)

SpecListing == InitListing /\ [][NextListing]_vars

-----------------------------------------------------------------------------
(* Properties of the paginated listings *)

ListingAsked(op) == listingReq.op = op

\* the largest limit a listing grants: 100 to the admin listing, 50 to the
\* user-scoped ones
LargestLimit(op) == IF op = "getAllOrders" THEN 100 ELSE 50

\* C21: the summary of getAllOrders is computed over the orders of the
\* returned page: totalRevenue is the sum of their totals, averageOrderValue
\* is totalRevenue divided by the number of orders summed, 0.00 when none
C21_SummaryOverPage ==
    (ListingAsked("getAllOrders") /\ listingReq.status = 200)
    => /\ listingReq.summary.totalRevenue = SumOfTotals(listingReq.rows)
       /\ listingReq.summary.averageOrderValue =
             IF listingReq.rows = <<>> THEN 0
             ELSE QuotientToFixed2(listingReq.summary.totalRevenue, Len(listingReq.rows))

\* C22: whatever the page and limit parameters are, the effective page is
\* >= 1, the effective limit is within 1..100 (admin listing) or 1..50
\* (user-scoped listings), and offset = (page - 1) * limit >= 0
C22_PaginationClamped ==
    ~ListingAsked("none")
    => /\ ~listingReq.pageNum.nan /\ listingReq.pageNum.n >= 1
       /\ ~listingReq.limitNum.nan
       /\ listingReq.limitNum.n \in 1..LargestLimit(listingReq.op)
       /\ ~listingReq.offset.nan
       /\ listingReq.offset.n = (listingReq.pageNum.n - 1) * listingReq.limitNum.n
       /\ listingReq.offset.n >= 0

\* the same for requests whose page and limit begin with a number
NumericPaginationClamped ==
    (/\ ~ListingAsked("none")
     /\ ~parseInt(Defaulted(listingReq.page, <<"1">>)).nan
     /\ ~parseInt(Defaulted(listingReq.limit, <<"1">>)).nan)
    => /\ ~listingReq.pageNum.nan /\ listingReq.pageNum.n >= 1
       /\ ~listingReq.limitNum.nan
       /\ listingReq.limitNum.n \in 1..LargestLimit(listingReq.op)
       /\ ~listingReq.offset.nan
       /\ listingReq.offset.n = (listingReq.pageNum.n - 1) * listingReq.limitNum.n
       /\ listingReq.offset.n >= 0

-----------------------------------------------------------------------------
(* Specification of the catalog: the catalog administration, deleteFlower  *)
(* included, and one createOrder handler, over a shop where two orders for *)
(* flower 1 are stored.                                                    *)

\* bodies of updateFlower: those of the concurrent specification and a new name
CatalogUpdates == UpdateInputs \cup {[name |-> "Peony"]}

NextCatalog ==
    \/ \E b \in Bodies : Submit(1, b)
    \/ OrderStep(1)
    \/ \E d \in CreateInputs : createFlower(d)
    \/ \E id \in AdminTargets, d \in CatalogUpdates : updateFlower(id, d)
    \/ \E id \in AdminTargets, s \in StockInputs : updateFlowerStock(id, s)
    \/ \E id \in FlowerIds : deleteFlower(id)

SpecCatalog == InitStatus /\ [][NextCatalog]_vars

-----------------------------------------------------------------------------
(* Properties of the catalog and of the stored order lines *)

\* the last catalog request was answered with the given message
AdminAnswered(message) == adminOps >= 1 /\ adminRes.message = message

\* request r has ended and no catalog request was served since it arrived
NoAdminSince(r) == Done(r) /\ 0 \notin others[r]

\* the lines of request r that name a discontinued product
DiscontinuedLines(r) ==
    {i \in 1..Len(body[r].items) :
        /\ body[r].items[i].flowerId \in FlowerIds
        /\ flowers[body[r].items[i].flowerId].exists
        /\ flowers[body[r].items[i].flowerId].status = "discontinued"}

\* the step is a deleteFlower that found its product
DeletesFlower ==
    adminOps' = adminOps + 1 /\ adminRes'.message = "Flower deleted successfully"

\* C23: deleteFlower removes no product row, it only sets the status to
\* discontinued, and the stored OrderItems remain; as long as the status is
\* not changed back, every createOrder naming the product is answered 400
\* (Product not available when that is its first failing check) and persists
\* nothing
C23_SoftDelete ==
    /\ [](\A r \in Slots :
             (NoAdminSince(r) /\ DiscontinuedLines(r) # {})
             => /\ res[r].status = 400
                /\ order[r] = 0
                /\ (/\ bodyCheck(body[r]) = "ok"
                    /\ body[r].shippingAddressId = 0
                    /\ 1 \in DiscontinuedLines(r)
                    /\ body[r].items[1].quantity > 0)
                   => res[r].message = "Product not available")
    /\ [][/\ \A f \in FlowerIds : flowers[f].exists => flowers'[f].exists
          /\ DeletesFlower
             => /\ \E id \in FlowerIds :
                      /\ flowers[id].exists
                      /\ flowers' = [flowers EXCEPT ![id].status = "discontinued"]
                /\ orderItems' = orderItems /\ orders' = orders]_vars

\* a product with a stored order line was deleted, and a later request for it
\* has been refused
C23_Witness ==
    /\ AdminAnswered("Flower deleted successfully")
    /\ \E r \in Slots :
          /\ NoAdminSince(r) /\ 1 \in DiscontinuedLines(r)
          /\ flowers[body[r].items[1].flowerId].stock > 0
          /\ res[r].status = 400 /\ res[r].message = "Product not available"
          /\ \E i \in PersistedItems : i.flowerId = body[r].items[1].flowerId


\* the row of order_items with the key of row i, after the step
SameLine(i) == {j \in orderItems' : j.orderId = i.orderId /\ j.line = i.line}

\* the rows of order_items the step has written
Written == {j \in orderItems' : \A i \in orderItems : i.orderId # j.orderId \/ i.line # j.line}

Offending(d) ==
    {f \in {"price", "stock"} \cap DOMAIN d : (f = "price" /\ d[f] <= 0) \/ (f = "stock" /\ d[f] < 0)}

\* the required fields a createFlower body lacks
Missing(d) ==
    {f \in {"name", "category"} : d[f] = ""} \cup {f \in {"price"} : d[f] = 0}

\* every product row the step has written has price > 0 and stock >= 0
WritesValidRows ==
    \A f \in FlowerIds :
        flowers'[f] # flowers[f] => flowers'[f].price > 0 /\ flowers'[f].stock >= 0

BadQuantityLines(r) ==
    {i \in 1..Len(body[r].items) : body[r].items[i].quantity \notin 1..999}

\* C26: every line of an accepted order has a quantity within 1..999 and is
\* stored with totalPrice = quantity * unitPrice, unitPrice being the
\* product's price; a request with another quantity is answered 400 Invalid
\* item data (when no earlier check fails) and persists nothing
C26_QuantitiesInRange ==
    \A r \in Slots :
        /\ Created(r)
           => /\ BadQuantityLines(r) = {}
              /\ \A i \in PersistedItems :
                    i.orderId = order[r]
                    => /\ i.quantity = body[r].items[i.line].quantity
                       /\ i.totalPrice = i.quantity * i.unitPrice
                       /\ Alone(r) => i.unitPrice = flowers[i.flowerId].price
        /\ (Done(r) /\ Alone(r) /\ BadQuantityLines(r) # {})
           => /\ res[r].status # 201
              /\ \A o \in orders : o.data.userId # r
              /\ \A i \in orderItems : i.orderId # order[r] \/ order[r] = 0
              /\ StockOf = stockBefore[r]
              /\ (/\ bodyCheck(body[r]) = "ok" /\ body[r].shippingAddressId = 0
                  /\ \A i \in 1..Len(body[r].items) :
                        LineProblem(body[r].items, i, FlowersBefore(r)) \in
                            {"ok", "Invalid item data"})
                 => res[r].status = 400 /\ res[r].message = "Invalid item data"


\* the part of C26 about accepted orders
AcceptedQuantitiesInRange ==
    \A r \in Slots :
        Created(r)
        => /\ BadQuantityLines(r) = {}
           /\ \A i \in PersistedItems :
                 i.orderId = order[r]
                 => /\ i.quantity = body[r].items[i.line].quantity
                    /\ i.totalPrice = i.quantity * i.unitPrice
                    /\ Alone(r) => i.unitPrice = flowers[i.flowerId].price

-----------------------------------------------------------------------------
(* Properties of the createOrder transaction *)

\* C27: the transaction createOrder opened is committed or rolled back by
\* the time the handler has ended, on every path, the early 400 returns
\* included; none is left open ("commit" and "rollback" exclude each other
\* in the transaction's state)
C27_TransactionsEnd ==
    \A r \in Slots : Done(r) => transaction[r] \in {"commit", "rollback"}

\* the rows request r has stored
OrdersOf(r) == {o \in PersistedOrders : o.id = order[r] /\ order[r] # 0}
ItemsOfOrder(r) == {i \in PersistedItems : i.orderId = order[r] /\ order[r] # 0}

\* C28: createOrder answers 201 exactly when the order is persisted; a
\* request that ends otherwise, a failure after the commit included, leaves
\* no Order row, no OrderItem row and no decremented stock
C28_CreatedIffPersisted ==
    \A r \in Slots :
        Done(r)
        => /\ res[r].status = 201 <=> OrdersOf(r) # {}
           /\ res[r].status # 201
              => /\ OrdersOf(r) = {} /\ ItemsOfOrder(r) = {}
                 /\ Alone(r) => StockOf = stockBefore[r]

\* the same for requests whose reload after the commit succeeds and that
\* fail, if they fail, before the first reduceStock
PersistedIffCreatedBeforeWrites ==
    \A r \in Slots :
        (Done(r) /\ (transaction[r] = "commit" => res[r].status = 201) /\ reduced[r] = 0)
        => /\ res[r].status = 201 <=> OrdersOf(r) # {}
           /\ res[r].status # 201
              => /\ OrdersOf(r) = {} /\ ItemsOfOrder(r) = {}
                 /\ Alone(r) => StockOf = stockBefore[r]


\* the products that several lines of request r name
RepeatedProducts(r) ==
    {f \in FlowerIds :
        \E i, j \in 1..Len(body[r].items) :
            i # j /\ body[r].items[i].flowerId = f /\ body[r].items[j].flowerId = f}

\* C29: a request with several lines for one product succeeds only if the
\* sum of their quantities is at most the product's stock, and the stock then
\* falls by that sum; otherwise it is answered 400 Insufficient stock (when
\* no other check fails) and changes nothing
C29_RepeatedProductSummed ==
    \A r \in Slots :
        (Done(r) /\ Alone(r))
        => \A f \in RepeatedProducts(r) :
              LET sum == QuantityOrdered(body[r].items, f)
              IN  /\ Created(r)
                     => /\ sum <= stockBefore[r][f]
                        /\ flowers[f].stock = stockBefore[r][f] - sum
                  /\ sum > stockBefore[r][f]
                     => /\ res[r].status # 201
                        /\ StockOf = stockBefore[r]
                        /\ OrdersOf(r) = {} /\ ItemsOfOrder(r) = {}
                        /\ FirstProblem(body[r], r, FlowersBefore(r)) = "ok"
                           => /\ res[r].status = 400
                              /\ res[r].message = "Insufficient stock"

-----------------------------------------------------------------------------
(* Ownership of the addresses *)

\* the owner the address with the given id had when the request of slot s
\* arrived
OwnersBefore(s) == {a.userId : a \in {b \in addressReq[s].before : b.id = addressReq[s].id}}

\* C30: the userId of an address is the id of the requester who created it
\* and never changes, whatever the body of createAddress or updateAddress
\* carries; a request naming another user's address is answered 404, and no
\* request changes or removes another user's address
C30_AddressOwnerFixed ==
    /\ [](\A s \in Slots :
             (/\ addressReq[s].op \in {"getAddressById", "updateAddress", "deleteAddress",
                                       "setDefaultAddress"}
              /\ addressReq[s].pc # "arrived"
              /\ OwnersBefore(s) # {} /\ AddressUser \notin OwnersBefore(s))
             => addressReq[s].pc = "done" /\ addressReq[s].res.status = 404)
    /\ [][/\ \A a \in addresses, b \in addresses' : a.id = b.id => b.userId = a.userId
          /\ \A b \in addresses' :
                (\A a \in addresses : a.id # b.id) => b.userId = AddressUser
          /\ \A a \in addresses : a.userId # AddressUser => a \in addresses']_vars

====
